---- MODULE Spec2Model ----
(***************************************************************************)
(* The bike-share station dashboard of src/app.py as a state machine.      *)
(*                                                                         *)
(* The script is re-executed from its first line on the page load and on   *)
(* every widget change.  One execution loads the station file (memoised by *)
(* st.cache_data), encodes the stations (create_map_layers), reads the two *)
(* check boxes and the two range sliders, filters, draws the map or a      *)
(* message, and shows the three counts.  An action of this module is one   *)
(* such execution, started by the page load or by one widget change.       *)
(*                                                                         *)
(* Representation of the data:                                             *)
(*  - a JSON value is tagged: [t |-> "list", v |-> <<...>>] or             *)
(*    [t |-> "dict", v |-> [key |-> value, ...]]; a station object is a    *)
(*    dict whose record has exactly the keys the object has;               *)
(*  - a data frame is [columns |-> set of names, rows |-> sequence of      *)
(*    functions on the columns];                                           *)
(*  - numbers are integers (ratios are whole percents, averages are whole  *)
(*    bikes); NaN is the missing number;                                   *)
(*  - is_virtual_station holds "True"/"False" (Python bools), "None" (JSON *)
(*    null), "NaN" (key absent in this row) or "Uncastable" (a value on    *)
(*    which astype(bool) raises);                                          *)
(*  - availability_ratio_normalized is kept in hundredths (0.5 is 50).     *)
(***************************************************************************)
EXTENDS Integers, Sequences, FiniteSets, TLC

\* ------------------------------------------------------------- bounds --
\* Longest station list of the input file.
MaxStations == 2

\* -------------------------------------------------- program constants --
NaN == -1
Percent == 100
ColorScale == 255
GrayLevel == 128
SliderMaxRatio == 100
SliderMaxBikes == 20
BikesThreshold == 10
FixedRadius == 25
MinRadius == 8

\* ------------------------------------------------------ Python helpers --
pd_isna(x) == x = NaN

Max2(a, b) == IF a >= b THEN a ELSE b

Min2(a, b) == IF a <= b THEN a ELSE b

\* int(x) on the (integral) numbers of the model; int(NaN) raises and is
\* guarded wherever the script calls it.
PyInt(x) == x

\* d | {k: v ...}: the row with the derived columns added.
Extend(row, extra) ==
  [k \in DOMAIN row \cup DOMAIN extra |->
     IF k \in DOMAIN extra THEN extra[k] ELSE row[k]]

\* ---------------------------------------------------------- JSON values --
JList(L) == [t |-> "list", v |-> L]

JDict(d) == [t |-> "dict", v |-> d]

\* Python's `key in c`: a key of a dict, an element of a list.
Contains(key, c) ==
  IF c.t = "dict"
  THEN key \in DOMAIN c.v
  ELSE \E i \in DOMAIN c.v : c.v[i].t = "str" /\ c.v[i].v = key

\* The three documented shapes of the station file.
Shapes == {"list", "data", "data.stations"}

Document(sh, L) ==
  CASE sh = "list" -> JList(L)
    [] sh = "data" -> JDict([data |-> JList(L)])
    [] sh = "data.stations" -> JDict([data |-> JDict([stations |-> JList(L)])])

\* ------------------------------------------------------------- loading --
\* The missing value pandas fills a column with.
NaNOf(c) == IF c = "is_virtual_station" THEN "NaN" ELSE NaN

\* pd.DataFrame(list of dicts): the columns are the union of the keys.
\* pd.DataFrame(dict of lists): the keys are the columns, the lists' elements
\* the cells.
pd_DataFrame(sd) ==
  IF sd.t = "list"
  THEN LET cols == UNION {DOMAIN sd.v[i].v : i \in DOMAIN sd.v}
       IN [columns |-> cols,
           rows |-> [i \in DOMAIN sd.v |->
                       [c \in cols |-> IF c \in DOMAIN sd.v[i].v
                                       THEN sd.v[i].v[c] ELSE NaNOf(c)]]]
  ELSE LET cols == DOMAIN sd.v
           n == Len(sd.v[CHOOSE c \in cols : TRUE].v)
       IN [columns |-> cols,
           rows |-> [i \in 1..n |-> [c \in cols |-> sd.v[c].v[i]]]]

\* A faulty resolution that never looks for data.stations (C7 fails on it).
StationsDataOnly(data) ==
  IF data.t = "dict" /\ Contains("data", data)
  THEN data.v.data
  ELSE data

\* The resolution order of load_data: data.stations, data, the document.
stations_data(data) ==
  IF data.t = "dict" /\ Contains("data", data)
  THEN IF Contains("stations", data.v.data)
       THEN data.v.data.v.stations
       ELSE data.v.data
  ELSE data

load_data(data) == pd_DataFrame(stations_data(data))

\* ------------------------------------------------------------ encoding --
\* (1 - ratio) * 255 in binary64 lands just below the integer 51 for
\* ratio = 0.8 (1 - 0.8 = 0.19999999999999996), and on the exact value for
\* every other hundredth; ratio * 255 is never below its exact value.
BinaryDeficit(n) == IF n = 80 THEN 1 ELSE 0

\* A faulty colour law that rounds the channels (amended C1 fails on it).
RatioToColorRounded(n) ==
  IF pd_isna(n)
  THEN <<GrayLevel, GrayLevel, GrayLevel>>
  ELSE LET c == Max2(0, Min2(Percent, n))
       IN <<((Percent - c) * ColorScale + 50) \div Percent,
            (c * ColorScale + 50) \div Percent, 0>>

\* ratio_to_color, on a ratio in hundredths.
ratio_to_color(n) ==
  IF pd_isna(n)
  THEN <<GrayLevel, GrayLevel, GrayLevel>>
  ELSE LET c == Max2(0, Min2(Percent, n))
       IN <<((Percent - c) * ColorScale) \div Percent - BinaryDeficit(c),
            (c * ColorScale) \div Percent, 0>>

\* The normalisation lambda of create_map_layers, result in hundredths.
Normalize(x) ==
  IF ~pd_isna(x) /\ x > 1
  THEN x
  ELSE IF ~pd_isna(x) THEN Percent * x ELSE 50

AvailabilityDisplay(x) ==
  IF ~pd_isna(x) THEN ToString(PyInt(x)) \o "%" ELSE "N/A"

\* A faulty radius law with a strict threshold (C3 fails on it).
RadiusStrict(x) ==
  IF ~pd_isna(x) /\ x > BikesThreshold
  THEN FixedRadius
  ELSE Max2(MinRadius, MinRadius + (IF ~pd_isna(x) THEN x ELSE 0))

\* The radius lambda of create_map_layers.
Radius(x) ==
  IF ~pd_isna(x) /\ x >= BikesThreshold
  THEN FixedRadius
  ELSE Max2(MinRadius, MinRadius + (IF ~pd_isna(x) THEN x ELSE 0))

BikesDisplay(x) == IF ~pd_isna(x) THEN ToString(PyInt(x)) ELSE "N/A"

EncodeDocked(row) ==
  LET n == Normalize(row["availability_ratio"])
      d == AvailabilityDisplay(row["availability_ratio"])
  IN Extend(row, [station_type |-> "Docked",
                  availability_ratio_normalized |-> n,
                  availability_display |-> d,
                  info_line |-> "Available Ratio: " \o d,
                  color |-> ratio_to_color(n)])

EncodeDockless(row) ==
  LET d == BikesDisplay(row["avg_num_of_available"])
  IN Extend(row, [station_type |-> "Dockless",
                  radius |-> Radius(row["avg_num_of_available"]),
                  bikes_display |-> d,
                  info_line |-> "Available bikes: " \o d])

\* Series.astype(bool), element by element.
Castable(v) == v # "Uncastable"

CastBool(v) == IF v \in {"True", "NaN"} THEN "True" ELSE "False"

NoFrame == [columns |-> {}, rows |-> <<>>]

Layer(id, frame) == [id |-> id, data |-> frame]

IsVirtual(row) == row["is_virtual_station"] = "True"

IsNotVirtual(row) == row["is_virtual_station"] = "False"

\* A faulty cast that leaves the frame as loaded (amended C10 fails on it).
CastKeepsFrame(df) == df

\* The column assignment of line 48: the frame passed in gets the cast column.
CastInPlace(df) ==
  [df EXCEPT !.rows =
     [i \in DOMAIN df.rows |->
        [df.rows[i] EXCEPT !["is_virtual_station"] = CastBool(@)]]]

\* create_map_layers(df).  raised: an exception left the function; df: the
\* caller's frame as the call leaves it.
create_map_layers(df) ==
  LET failed(frame) == [raised |-> TRUE, df |-> frame, layers |-> <<>>,
                        df_docked |-> NoFrame, df_dockless |-> NoFrame]
  IN IF "is_virtual_station" \notin df.columns
     THEN failed(df)
     ELSE IF \E i \in DOMAIN df.rows : ~Castable(df.rows[i]["is_virtual_station"])
     THEN failed(df)
     ELSE
       LET cast == CastInPlace(df)
           docked == SelectSeq(cast.rows, IsNotVirtual)
           dockless == SelectSeq(cast.rows, IsVirtual)
       IN IF Len(docked) > 0 /\ "availability_ratio" \notin df.columns
          THEN failed(cast)
          ELSE IF Len(dockless) > 0 /\ "avg_num_of_available" \notin df.columns
          THEN failed(cast)
          ELSE
            LET df_docked ==
                  IF Len(docked) > 0
                  THEN [columns |-> df.columns \cup
                                    {"station_type", "availability_ratio_normalized",
                                     "availability_display", "info_line", "color"},
                        rows |-> [i \in DOMAIN docked |-> EncodeDocked(docked[i])]]
                  ELSE [columns |-> df.columns, rows |-> <<>>]
                df_dockless ==
                  IF Len(dockless) > 0
                  THEN [columns |-> df.columns \cup
                                    {"station_type", "radius", "bikes_display",
                                     "info_line"},
                        rows |-> [i \in DOMAIN dockless |-> EncodeDockless(dockless[i])]]
                  ELSE [columns |-> df.columns, rows |-> <<>>]
            IN [raised |-> FALSE,
                df |-> cast,
                layers |-> (IF Len(docked) > 0
                            THEN <<Layer("docked_stations", df_docked)>> ELSE <<>>)
                          \o (IF Len(dockless) > 0
                              THEN <<Layer("dockless_stations", df_dockless)>>
                              ELSE <<>>),
                df_docked |-> df_docked,
                df_dockless |-> df_dockless]

\* ------------------------------------------------------- the input file --
FullStation(v, r, a) ==
  [latitude |-> 48, longitude |-> 2, is_virtual_station |-> v,
   availability_ratio |-> r, avg_num_of_available |-> a]

Without(rec, keys) == [k \in DOMAIN rec \ keys |-> rec[k]]

\* Stations that occur in lists of every length up to MaxStations.
CoreStations ==
  {FullStation("False", 40, 3), FullStation("False", 100, 3),
   FullStation("False", NaN, 3), FullStation("True", 40, 3),
   FullStation("True", 40, 12), FullStation("True", 40, NaN),
   FullStation("None", 0, 3), FullStation("Uncastable", 40, 3),
   Without(FullStation("True", 40, 3), {"is_virtual_station"}),
   Without(FullStation("False", 40, 3), {"latitude", "longitude"}),
   Without(FullStation("False", 40, 3), {"availability_ratio"})}

\* Every whole ratio and every whole average the sliders span, in files of
\* one station.
WideStations ==
  {FullStation("False", r, 3) : r \in 0..SliderMaxRatio}
    \cup {FullStation("True", 40, a) : a \in 0..SliderMaxBikes}

\* The station files of the sessions whose refreshes are compared with each
\* other.
ObservedFiles ==
  {<<>>,
   <<FullStation("False", 40, 3)>>,
   <<FullStation("True", 40, 3)>>,
   <<FullStation("False", 40, 3), FullStation("True", 40, 3)>>,
   <<FullStation("False", NaN, 3), FullStation("True", 40, 3)>>,
   <<FullStation("None", 0, 3), FullStation("True", 40, NaN)>>,
   <<FullStation("False", 40, 3), FullStation("False", 100, 3),
     FullStation("True", 40, 3)>>,
   <<FullStation("False", 40, 3), FullStation("True", 40, 3),
     FullStation("True", 40, 12)>>}

ListsUpTo(n, S) == UNION {[1..k -> S] : k \in 0..n}

\* The slider positions the model lets the user choose from, besides the
\* ends of the slider.
RatioStops == {40, 41}

BikesStops == {3, 4}

VARIABLES
  stations,         \* the station objects of the file, data/gbfs_station_paris.json
  shape,            \* the shape of the document that holds them
  cache,            \* st.cache_data of load_data: <<>> or <<frame>>
  df,               \* the names of the script as its last execution left them
  layers,
  df_docked,
  df_dockless,
  show_docked,
  show_dockless,
  ratio_filter,     \* <<lo, hi>>, or <<>> when the slider was not drawn
  bikes_filter,
  filtered_layers,
  visible_docked,
  visible_dockless,
  visible_total,
  display,          \* what the page shows: "start", "chart", "warning", "error_*"
  checkboxes,       \* the session's widgets: were the check boxes drawn,
  ratio_slider,     \* and each slider's <<min_value, max_value>>, <<>> if not drawn
  bikes_slider,
  observing,        \* history: a refresh of this session kept for comparison
  probe

vars ==
  <<stations, shape, cache, df, layers, df_docked, df_dockless, show_docked,
    show_dockless, ratio_filter, bikes_filter, filtered_layers, visible_docked,
    visible_dockless, visible_total, display, checkboxes, ratio_slider,
    bikes_slider, observing, probe>>

\* json.load(f): the document of the file.
FileDocument == Document(shape, [i \in DOMAIN stations |-> JDict(stations[i])])

\* @st.cache_data: a hit returns a copy of the stored frame.
cached_load_data(c, data) == IF c # <<>> THEN c[1] ELSE load_data(data)

\* ----------------------------------------------------------- filtering --
\* Series.min(): the least value that is not NaN, NaN when there is none.
SeriesMin(frame, col) ==
  LET vals == {frame.rows[i][col] : i \in DOMAIN frame.rows} \ {NaN}
  IN IF vals = {} THEN NaN ELSE CHOOSE m \in vals : \A x \in vals : m <= x

\* A faulty mask that excludes the lower bound (C4 fails on it).
InRangeExclusive(x, lo, hi) == ~pd_isna(x) /\ x > lo /\ x <= hi

\* (col >= lo) & (col <= hi): a comparison with NaN is False.
InRange(x, lo, hi) == ~pd_isna(x) /\ x >= lo /\ x <= hi

FilterFrame(frame, col, value) ==
  [frame EXCEPT !.rows =
     SelectSeq(@, LAMBDA row : InRange(row[col], value[1], value[2]))]

\* The names an execution starts with: none bound, nothing drawn.
Blank(loaded) ==
  [cache |-> <<loaded>>, df |-> loaded, layers |-> <<>>,
   df_docked |-> NoFrame, df_dockless |-> NoFrame,
   show_docked |-> TRUE, show_dockless |-> TRUE,
   ratio_filter |-> <<>>, bikes_filter |-> <<>>, filtered_layers |-> <<>>,
   visible_docked |-> 0, visible_dockless |-> 0, visible_total |-> 0,
   display |-> "none", checkboxes |-> FALSE,
   ratio_slider |-> <<>>, bikes_slider |-> <<>>]

\* Lines 130-154.
DockedStage(b, w) ==
  IF b.show_docked /\ Len(b.df_docked.rows) > 0
  THEN LET min_ratio == SeriesMin(b.df_docked, "availability_ratio")
       IN IF pd_isna(min_ratio)
          THEN [b EXCEPT !.display = "error_exception"]
          ELSE LET range == <<PyInt(min_ratio), SliderMaxRatio>>
                   value == IF w.ratio # <<>> THEN w.ratio ELSE range
                   kept == FilterFrame(b.df_docked, "availability_ratio", value)
               IN [b EXCEPT !.ratio_slider = range,
                            !.ratio_filter = value,
                            !.df_docked = kept,
                            !.filtered_layers =
                               Append(@, Layer("docked_stations", kept))]
  ELSE b

\* Lines 156-179.
DocklessStage(b, w) ==
  IF b.show_dockless /\ Len(b.df_dockless.rows) > 0
  THEN LET min_avg == SeriesMin(b.df_dockless, "avg_num_of_available")
       IN IF pd_isna(min_avg)
          THEN [b EXCEPT !.display = "error_exception"]
          ELSE LET range == <<PyInt(min_avg), SliderMaxBikes>>
                   value == IF w.bikes # <<>> THEN w.bikes ELSE range
                   kept == FilterFrame(b.df_dockless, "avg_num_of_available", value)
               IN [b EXCEPT !.bikes_slider = range,
                            !.bikes_filter = value,
                            !.df_dockless = kept,
                            !.filtered_layers =
                               Append(@, Layer("dockless_stations", kept))]
  ELSE b

\* A faulty summary that counts a frame whose toggle is off (C5 fails on it).
SummaryCountsAll(b) ==
  LET vd == Len(b.df_docked.rows)
      vl == Len(b.df_dockless.rows)
  IN [b EXCEPT !.display = IF b.filtered_layers # <<>> THEN "chart" ELSE "warning",
               !.visible_docked = vd,
               !.visible_dockless = vl,
               !.visible_total = vd + vl]

\* A faulty summary that draws the map without layers (C6 fails on it).
SummaryAlwaysChart(b) ==
  LET vd == IF b.show_docked THEN Len(b.df_docked.rows) ELSE 0
      vl == IF b.show_dockless THEN Len(b.df_dockless.rows) ELSE 0
  IN [b EXCEPT !.display = "chart",
               !.visible_docked = vd,
               !.visible_dockless = vl,
               !.visible_total = vd + vl]

\* Lines 181-221: the map or the warning, then the three counts.
SummaryStage(b) ==
  LET vd == IF b.show_docked THEN Len(b.df_docked.rows) ELSE 0
      vl == IF b.show_dockless THEN Len(b.df_dockless.rows) ELSE 0
  IN [b EXCEPT !.display = IF b.filtered_layers # <<>> THEN "chart" ELSE "warning",
               !.visible_docked = vd,
               !.visible_dockless = vl,
               !.visible_total = vd + vl]

\* A faulty execution that filters the frames the previous execution left
\* (C8 fails on it).
StaleFrames(enc) ==
  IF display \in {"chart", "warning"}
  THEN [enc EXCEPT !.df_docked = df_docked, !.df_dockless = df_dockless]
  ELSE enc

\* Line 122: every execution binds layers, df_docked and df_dockless to what
\* create_map_layers returned in this execution.
EncodedThisRun(enc) == enc

\* One execution of the script (lines 119-261) with the widget values w:
\* the check boxes' values, and each slider's value (<<>>: the slider is new
\* in this execution and shows its default).
Run(w) ==
  LET loaded == cached_load_data(cache, FileDocument)
      b0 == Blank(loaded)
  IN IF ~({"latitude", "longitude"} \subseteq loaded.columns)
     THEN [b0 EXCEPT !.display = "error_columns"]
     ELSE
       LET made == create_map_layers(loaded)
           enc == EncodedThisRun(made)
       IN IF made.raised
          THEN [b0 EXCEPT !.df = made.df, !.display = "error_exception"]
          ELSE
            LET b1 == [b0 EXCEPT !.df = made.df, !.layers = enc.layers,
                                 !.df_docked = enc.df_docked,
                                 !.df_dockless = enc.df_dockless,
                                 !.checkboxes = TRUE,
                                 !.show_docked = w.docked,
                                 !.show_dockless = w.dockless]
            IN IF b1.layers = <<>>
               THEN [b1 EXCEPT !.display = "error_no_layers"]
               ELSE
                 LET b2 == DockedStage(b1, w)
                 IN IF b2.display = "error_exception"
                    THEN b2
                    ELSE LET b3 == DocklessStage(b2, w)
                         IN IF b3.display = "error_exception"
                            THEN b3
                            ELSE SummaryStage(b3)

\* What a refresh was given (its encoded record set, toggles and bounds) and
\* what it showed; other: a refresh with other inputs has run since.
Inputs(b) ==
  [layers |-> b.layers, show_docked |-> b.show_docked,
   show_dockless |-> b.show_dockless, ratio_filter |-> b.ratio_filter,
   bikes_filter |-> b.bikes_filter]

Outputs(b) ==
  [df_docked |-> b.df_docked, df_dockless |-> b.df_dockless,
   filtered_layers |-> b.filtered_layers,
   visible_docked |-> b.visible_docked, visible_dockless |-> b.visible_dockless,
   visible_total |-> b.visible_total, display |-> b.display]

Observation(b) == [given |-> Inputs(b), shown |-> Outputs(b), other |-> FALSE]

Kept(p, o) ==
  IF p # <<>> /\ p[1].given # o.given THEN <<[p[1] EXCEPT !.other = TRUE]>> ELSE p

Apply(b) ==
  /\ cache' = b.cache
  /\ df' = b.df
  /\ layers' = b.layers
  /\ df_docked' = b.df_docked
  /\ df_dockless' = b.df_dockless
  /\ show_docked' = b.show_docked
  /\ show_dockless' = b.show_dockless
  /\ ratio_filter' = b.ratio_filter
  /\ bikes_filter' = b.bikes_filter
  /\ filtered_layers' = b.filtered_layers
  /\ visible_docked' = b.visible_docked
  /\ visible_dockless' = b.visible_dockless
  /\ visible_total' = b.visible_total
  /\ display' = b.display
  /\ checkboxes' = b.checkboxes
  /\ ratio_slider' = b.ratio_slider
  /\ bikes_slider' = b.bikes_slider
  /\ probe' \in (IF observing
                 THEN {Kept(probe, Observation(b)), <<Observation(b)>>}
                 ELSE {probe})
  /\ UNCHANGED <<stations, shape, observing>>

\* The values the session holds for the widgets: a widget drawn in the last
\* execution keeps its value, one that was not drawn is back at its default.
Persisted ==
  [docked |-> show_docked, dockless |-> show_dockless,
   ratio |-> IF ratio_slider # <<>> THEN ratio_filter ELSE <<>>,
   bikes |-> IF bikes_slider # <<>> THEN bikes_filter ELSE <<>>]

\* The pairs a slider of the given range can be set to.
Offered(range, stops) ==
  LET pos == (stops \cup {range[1], range[2]}) \cap (range[1]..range[2])
  IN {<<lo, hi>> : lo \in pos, hi \in pos} \cap
       {p \in (range[1]..range[2]) \X (range[1]..range[2]) : p[1] <= p[2]}

\* ------------------------------------------------------------- actions --
PageLoad ==
  /\ display = "start"
  /\ Apply(Run(Persisted))

Rerun ==
  /\ display # "start"
  /\ Apply(Run(Persisted))

ToggleDocked ==
  /\ checkboxes
  /\ Apply(Run([Persisted EXCEPT !.docked = ~@]))

ToggleDockless ==
  /\ checkboxes
  /\ Apply(Run([Persisted EXCEPT !.dockless = ~@]))

MoveRatioSlider ==
  /\ ratio_slider # <<>>
  /\ \E p \in Offered(ratio_slider, RatioStops) :
       /\ p # ratio_filter
       /\ Apply(Run([Persisted EXCEPT !.ratio = p]))

MoveBikesSlider ==
  /\ bikes_slider # <<>>
  /\ \E p \in Offered(bikes_slider, BikesStops) :
       /\ p # bikes_filter
       /\ Apply(Run([Persisted EXCEPT !.bikes = p]))

Next ==
  \/ PageLoad
  \/ Rerun
  \/ ToggleDocked
  \/ ToggleDockless
  \/ MoveRatioSlider
  \/ MoveBikesSlider

InitSession ==
  /\ cache = <<>>
  /\ df = NoFrame
  /\ layers = <<>>
  /\ df_docked = NoFrame
  /\ df_dockless = NoFrame
  /\ show_docked = TRUE
  /\ show_dockless = TRUE
  /\ ratio_filter = <<>>
  /\ bikes_filter = <<>>
  /\ filtered_layers = <<>>
  /\ visible_docked = 0
  /\ visible_dockless = 0
  /\ visible_total = 0
  /\ display = "start"
  /\ checkboxes = FALSE
  /\ ratio_slider = <<>>
  /\ bikes_slider = <<>>
  /\ probe = <<>>

Init ==
  /\ stations \in ListsUpTo(MaxStations, CoreStations)
                    \cup {<<s>> : s \in WideStations}
  /\ shape \in Shapes
  /\ observing = FALSE
  /\ InitSession

Spec == Init /\ [][Next]_vars

InitObserved ==
  /\ stations \in ObservedFiles
  /\ shape \in Shapes
  /\ observing = TRUE
  /\ InitSession

SpecObserved == InitObserved /\ [][Next]_vars

\* ------------------------------------------------------------- claims --
\* The rows create_map_layers encoded in the last execution, before any
\* filter: the data of the layers it returned.
AllDockedRows ==
  IF \E i \in DOMAIN layers : layers[i].id = "docked_stations"
  THEN layers[CHOOSE i \in DOMAIN layers : layers[i].id = "docked_stations"].data.rows
  ELSE <<>>

AllDocklessRows ==
  IF \E i \in DOMAIN layers : layers[i].id = "dockless_stations"
  THEN layers[CHOOSE i \in DOMAIN layers : layers[i].id = "dockless_stations"].data.rows
  ELSE <<>>

RowsOf(rows) == {rows[i] : i \in DOMAIN rows}

\* round(num / den) for num >= 0, den > 0 (halves up).
Rounded(num, den) == (2 * num + den) \div (2 * den)

C2_MissingRatioIsGray ==
  \A row \in RowsOf(AllDockedRows) :
    pd_isna(row["availability_ratio"]) => row["color"] = <<128, 128, 128>>

\* C3: a Dockless record of average a has radius 25 when a >= 10, radius
\* max(8, 8 + a) when 0 <= a < 10, and radius 8 when a is missing.
C3_RadiusLaw ==
  \A row \in RowsOf(AllDocklessRows) :
    LET a == row["avg_num_of_available"]
    IN /\ (~pd_isna(a) /\ a >= 10) => row["radius"] = 25
       /\ (~pd_isna(a) /\ 0 <= a /\ a < 10) =>
            row["radius"] = (IF 8 + a >= 8 THEN 8 + a ELSE 8)
       /\ pd_isna(a) => row["radius"] = 8

\* Dockless records at the threshold, below it and without an average have
\* been encoded.
C3_Witness ==
  \/ \E row \in RowsOf(AllDocklessRows) :
       row["avg_num_of_available"] = 10 /\ row["radius"] = 25
  \/ /\ \E row \in RowsOf(AllDocklessRows) :
          row["avg_num_of_available"] = 3 /\ row["radius"] = 11
     /\ \E row \in RowsOf(AllDocklessRows) :
          pd_isna(row["avg_num_of_available"]) /\ row["radius"] = 8

Between(m, lo, hi) == m # NaN /\ lo <= m /\ m <= hi

DataOf(ls, id) ==
  LET hits == {i \in DOMAIN ls : ls[i].id = id}
  IN IF hits = {} THEN NoFrame ELSE ls[CHOOSE i \in hits : TRUE].data

\* C4: for a category that is toggled on, has records, and whose slider gave
\* the bounds (lo, hi), the visible subset (the filtered frame and the data of
\* its layer) is exactly the encoded records whose metric m has lo <= m <= hi.
C4_VisibleIsExactlyInRange ==
  /\ ratio_filter # <<>> =>
       /\ show_docked /\ Len(AllDockedRows) > 0
       /\ df_docked.rows =
            SelectSeq(AllDockedRows,
                      LAMBDA row : Between(row["availability_ratio"],
                                           ratio_filter[1], ratio_filter[2]))
       /\ DataOf(filtered_layers, "docked_stations") = df_docked
  /\ bikes_filter # <<>> =>
       /\ show_dockless /\ Len(AllDocklessRows) > 0
       /\ df_dockless.rows =
            SelectSeq(AllDocklessRows,
                      LAMBDA row : Between(row["avg_num_of_available"],
                                           bikes_filter[1], bikes_filter[2]))
       /\ DataOf(filtered_layers, "dockless_stations") = df_dockless
  /\ (checkboxes /\ show_docked /\ Len(AllDockedRows) > 0
        /\ display \in {"chart", "warning"}) => ratio_filter # <<>>
  /\ (checkboxes /\ show_dockless /\ Len(AllDocklessRows) > 0
        /\ display \in {"chart", "warning"}) => bikes_filter # <<>>

\* Bounds (40, 40) keep the record at 40, on both inclusive ends, and drop the
\* record at 100.
C4_Witness ==
  /\ display = "chart"
  /\ ratio_filter = <<40, 40>>
  /\ Len(AllDockedRows) = 2
  /\ Len(df_docked.rows) = 1
  /\ df_docked.rows[1]["availability_ratio"] = 40

\* C5: in a refresh that reaches the summary, a category whose toggle is off
\* counts 0 whatever its frame holds, and the total is the sum of the two
\* category counts.
C5_ToggledOffCountsZero ==
  display \in {"chart", "warning"} =>
    /\ ~show_docked => visible_docked = 0
    /\ ~show_dockless => visible_dockless = 0
    /\ visible_total = visible_docked + visible_dockless

\* The Docked toggle is off over a non-empty Docked frame, and Dockless records
\* are counted.
C5_Witness ==
  /\ display = "chart"
  /\ ~show_docked
  /\ Len(df_docked.rows) > 0
  /\ visible_docked = 0
  /\ visible_total > 0

\* C6: with both toggles off over a non-empty record set, no layer is kept, no
\* map is drawn and the warning is shown.
C6_BothOffWarns ==
  (checkboxes /\ ~show_docked /\ ~show_dockless /\ Len(stations) > 0) =>
    /\ filtered_layers = <<>>
    /\ display = "warning"

\* Both toggles are off over encoded records of both categories.
C6_Witness ==
  /\ checkboxes /\ ~show_docked /\ ~show_dockless
  /\ Len(AllDockedRows) > 0 /\ Len(AllDocklessRows) > 0
  /\ display = "warning"

\* The station objects of the file, as a JSON list.
StationList == JList([i \in DOMAIN stations |-> JDict(stations[i])])

\* C7: load_data gives the same record set for a list L, for {"data": L} and
\* for {"data": {"stations": L}}, and it is what the executions of the script
\* got from it.
C7_ShapesLoadAlike ==
  /\ \A sh \in Shapes :
       load_data(Document(sh, StationList.v)) = pd_DataFrame(StationList)
  /\ cache # <<>> => cache[1] = pd_DataFrame(StationList)

\* A file of shape {"data": {"stations": L}} with two stations has been loaded.
C7_Witness ==
  /\ shape = "data.stations"
  /\ cache # <<>>
  /\ Len(stations) = 2
  /\ Len(cache[1].rows) = 2
  /\ display = "chart"

CurrentRun ==
  [layers |-> layers, show_docked |-> show_docked, show_dockless |-> show_dockless,
   ratio_filter |-> ratio_filter, bikes_filter |-> bikes_filter,
   df_docked |-> df_docked, df_dockless |-> df_dockless,
   filtered_layers |-> filtered_layers,
   visible_docked |-> visible_docked, visible_dockless |-> visible_dockless,
   visible_total |-> visible_total, display |-> display]

\* C8: a refresh given the encoded record set, toggles and bounds of an
\* earlier refresh of the session shows the same visible subsets, layers,
\* counts and message, whatever refreshes ran in between.
C8_SameInputsSameView ==
  (probe # <<>> /\ probe[1].given = Inputs(CurrentRun)) =>
     probe[1].shown = Outputs(CurrentRun)

\* A refresh repeats the bounds (41, 100) of an earlier one after refreshes
\* with other inputs.
C8_Witness ==
  /\ probe # <<>>
  /\ probe[1].other
  /\ probe[1].given = Inputs(CurrentRun)
  /\ ratio_filter = <<41, 100>>
  /\ Len(df_docked.rows) = 1
  /\ display = "chart"

IsUncastable(st) ==
  "is_virtual_station" \in DOMAIN st /\ ~Castable(st["is_virtual_station"])

C10_LoadedFrameUntouched ==
  display # "start" => df = cache[1]

\* C10 as amended: create_map_layers(df) replaces the is_virtual_station of the
\* records of df by its boolean cast, in place (null becomes False, an absent
\* key True); every other field of every record keeps its loaded value, a
\* boolean is_virtual_station keeps its value too, and the derived fields are
\* on the Docked/Dockless copies only.
C10_OnlyFlagIsCastInPlace ==
  display # "start" =>
    /\ df.columns = cache[1].columns
    /\ DOMAIN df.rows = DOMAIN cache[1].rows
    /\ \A i \in DOMAIN df.rows :
         /\ \A c \in df.columns \ {"is_virtual_station"} :
              df.rows[i][c] = cache[1].rows[i][c]
         /\ "is_virtual_station" \in df.columns =>
              LET raw == cache[1].rows[i]["is_virtual_station"]
                  now == df.rows[i]["is_virtual_station"]
              IN /\ raw \in {"True", "False"} => now = raw
                 /\ checkboxes =>
                      now = (IF raw \in {"None", "False"} THEN "False" ELSE "True")
    /\ checkboxes =>
         /\ \A row \in RowsOf(AllDockedRows) : "color" \in DOMAIN row
         /\ \A row \in RowsOf(AllDocklessRows) : "radius" \in DOMAIN row

\* A record loaded with a null is_virtual_station holds False after the
\* encoding, and was encoded as Docked.
C10_Witness ==
  /\ checkboxes
  /\ display = "chart"
  /\ \E i \in DOMAIN df.rows :
       /\ cache[1].rows[i]["is_virtual_station"] = "None"
       /\ df.rows[i]["is_virtual_station"] = "False"
  /\ Len(AllDockedRows) > 0
====
